---- MODULE Spec2Model ----
(***************************************************************************)
(* AI scoring server: the Kafka worker loop (app/services/kafka_service.py),*)
(* the input contract (app/utils/types.py), the DEX scoring model          *)
(* (app/models/dex_model.py) and the application lifespan (app/main.py).   *)
(*                                                                         *)
(* Strings the code inspects character by character (wallet addresses,     *)
(* protocol types) are sequences of one-character strings.  Scores are     *)
(* fixed-point integers in hundredths (25.5 is 2550); USD amounts are      *)
(* whole dollars; timestamps are unix seconds.                             *)
(***************************************************************************)
EXTENDS Integers, Sequences, FiniteSets, TLC

----------------------------------------------------------------------------
(* Bounds of the model *)

\* messages the input topic delivers during one run
MaxPolled == 2
\* records one poll returns (the code asks for at most max_records = 10)
MaxBatch == 2
\* largest processing time, in ms, one message is measured to take
MaxProcMs == 1
\* calls of process_wallet_data one scoring session makes
MaxCalls == 3
\* calls of the scoring model's private methods that are compared
MaxModelCalls == 2

----------------------------------------------------------------------------
(* Strings as character sequences *)

Rep(c, n) == [i \in 1..n |-> c]

UNKNOWN == <<"u","n","k","n","o","w","n">>
DEXES == <<"d","e","x","e","s">>
DEXES_UPPER == <<"D","E","X","E","S">>
LENDING == <<"l","e","n","d","i","n","g">>

\* str.lower() on the letters the model's protocol types are written with
LowerChar(c) ==
    CASE c = "D" -> "d"
      [] c = "E" -> "e"
      [] c = "X" -> "x"
      [] c = "S" -> "s"
      [] OTHER -> c

lower(s) == [i \in 1..Len(s) |-> LowerChar(s[i])]

\* str.startswith('0x')
startswith_0x(v) == Len(v) >= 2 /\ v[1] = "0" /\ v[2] = "x"

----------------------------------------------------------------------------
(* Input contract: app/utils/types.py *)

valid_actions == {"swap", "deposit", "withdraw", "add_liquidity", "remove_liquidity"}

\* Transaction.validate_action
validate_action(v) == v \in valid_actions

\* WalletTransactionInput.validate_wallet_address: prefix and length only
validate_wallet_address(v) == startswith_0x(v) /\ Len(v) = 42

\* A bucket of the payload's data list as json.loads returns it: obj says
\* whether the element is a JSON object, has names the keys it carries.
\* ProtocolData accepts it when it is an object with both keys and every
\* transaction has a valid action.
ProtocolDataValid(b) ==
    /\ b.obj
    /\ b.has = {"protocolType", "transactions"}
    /\ \A i \in 1..Len(b.transactions) : validate_action(b.transactions[i].action)

\* WalletTransactionInput(**message_data) raises ValidationError
ValidationFails(m) ==
    \/ "wallet_address" \notin m.has
    \/ ~validate_wallet_address(m.wallet_address)
    \/ "data" \notin m.has
    \/ \E i \in 1..Len(m.data) : ~ProtocolDataValid(m.data[i])

----------------------------------------------------------------------------
(* Scoring model: app/models/dex_model.py *)

\* datetime.now() of the scoring run, unix seconds
NowTs == 1793664000
SecondsPerDay == 86400

lp_weight == 6
swap_weight == 4

IsDeposit(tx) == tx.action \in {"deposit", "add_liquidity"}
IsWithdraw(tx) == tx.action \in {"withdraw", "remove_liquidity"}
IsSwap(tx) == tx.action = "swap"

RECURSIVE SumOver(_, _, _)
\* sum of field f over the transactions of txs that satisfy kind
SumOver(txs, kind, f) ==
    IF txs = <<>> THEN 0
    ELSE (IF (kind = "deposit" /\ IsDeposit(Head(txs)))
             \/ (kind = "withdraw" /\ IsWithdraw(Head(txs)))
             \/ (kind = "swap" /\ IsSwap(Head(txs)))
          THEN Head(txs)[f] ELSE 0)
         + SumOver(Tail(txs), kind, f)

\* the counts with isin([...]) narrowed to the first action of each list:
\* add_liquidity and remove_liquidity are counted nowhere
CountOfFirstAction(txs, kind) ==
    Cardinality({i \in 1..Len(txs) : txs[i].action = kind})

CountOf(txs, kind) ==
    Cardinality({i \in 1..Len(txs) :
        \/ kind = "deposit" /\ IsDeposit(txs[i])
        \/ kind = "withdraw" /\ IsWithdraw(txs[i])
        \/ kind = "swap" /\ IsSwap(txs[i])})

UniquePools(txs) == Cardinality({txs[i].poolId : i \in 1..Len(txs)})

MaxOf(S) == CHOOSE x \in S : \A y \in S : y <= x
MinOf(S) == CHOOSE x \in S : \A y \in S : x <= y
Min2(a, b) == IF a <= b THEN a ELSE b
Max2(a, b) == IF a >= b THEN a ELSE b

RECURSIVE HoldDaysSum(_)
\* sum over the deposits of (now - dt).days
HoldDaysSum(txs) ==
    IF txs = <<>> THEN 0
    ELSE (IF IsDeposit(Head(txs))
          THEN (NowTs - Head(txs).timestamp) \div SecondsPerDay ELSE 0)
         + HoldDaysSum(Tail(txs))

RECURSIVE InsertByTimestamp(_, _)
\* a row put behind the rows of a sorted frame that are not later than it
InsertByTimestamp(df, row) ==
    IF df = <<>> THEN <<row>>
    ELSE IF row.timestamp < Head(df).timestamp THEN <<row>> \o df
    ELSE <<Head(df)>> \o InsertByTimestamp(Tail(df), row)

RECURSIVE SortByTimestamp(_)
\* df.sort_values('timestamp'): on frames this short numpy sorts by insertion,
\* which keeps rows of equal timestamp in their input order
SortByTimestamp(txs) ==
    IF txs = <<>> THEN <<>>
    ELSE InsertByTimestamp(SortByTimestamp(SubSeq(txs, 1, Len(txs) - 1)),
                           txs[Len(txs)])

\* _transactions_to_dataframe with data = [] inside the loop: the frame holds
\* the row of the last listed transaction alone
transactions_to_dataframe_last_row(txs) == <<txs[Len(txs)]>>

\* _transactions_to_dataframe on a non-empty list: one row per transaction,
\* sorted by timestamp
transactions_to_dataframe(txs) == SortByTimestamp(txs)

\* _extract_dex_features on a non-empty frame.  The averages are kept in
\* hundredths, rounded down.
extract_dex_features(txs) ==
    LET nd == CountOf(txs, "deposit")
        ns == CountOf(txs, "swap")
        nw == CountOf(txs, "withdraw")
        dep == SumOver(txs, "deposit", "token0") + SumOver(txs, "deposit", "token1")
        swp == SumOver(txs, "swap", "tokenIn")
        wd == SumOver(txs, "withdraw", "token0") + SumOver(txs, "withdraw", "token1")
        n == Len(txs)
        stamps == {txs[i].timestamp : i \in 1..n}
        span == (MaxOf(stamps) - MinOf(stamps)) \div SecondsPerDay
    IN [ total_deposit_usd |-> dep,
         total_swap_volume |-> swp,
         num_deposits |-> nd,
         num_swaps |-> ns,
         avg_hold_time_days |->
            IF nd > 0 THEN (100 * HoldDaysSum(txs)) \div nd ELSE 0,
         unique_pools |-> UniquePools(txs),
         total_withdraw_usd |-> wd,
         num_withdraws |-> nw,
         avg_transaction_size_usd |->
            IF n > 0 THEN (100 * (dep + swp + wd)) \div n ELSE 0,
         transaction_frequency_days |->
            IF n > 1 /\ span > 0 THEN (100 * span) \div n ELSE 0 ]

\* the assignments of the try block of _extract_dex_features, in source order
FeatureOrder ==
    <<"num_deposits", "num_swaps", "num_withdraws", "total_deposit_usd",
      "total_swap_volume", "total_withdraw_usd", "unique_pools",
      "avg_transaction_size_usd", "avg_hold_time_days",
      "transaction_frequency_days">>

\* the value of raisedAt when no statement of the try block raises
NoFault == Len(FeatureOrder) + 1

FeaturePosition(name) == CHOOSE k \in 1..Len(FeatureOrder) : FeatureOrder[k] = name

\* CategoryFeatures(): every field at its default
DefaultFeatures == [name \in {FeatureOrder[k] : k \in 1..Len(FeatureOrder)} |-> 0]

\* _extract_dex_features when the statement computing feature number raisedAt
\* raises: the one try block (lines 164-202) is left for its except branch,
\* which logs a warning, and the features object is returned as it stands:
\* the assignments before the statement are made, no later one is
extract_dex_features_raising(df, raisedAt) ==
    LET f == extract_dex_features(df)
    IN [name \in DOMAIN DefaultFeatures |->
            IF FeaturePosition(name) < raisedAt THEN f[name] ELSE DefaultFeatures[name]]

\* volume bonus against volume_thresholds (dex_model.py:28-33)
VolumeBonus(usd) ==
    IF usd >= 100000 THEN 300
    ELSE IF usd >= 10000 THEN 200
    ELSE IF usd >= 1000 THEN 150
    ELSE IF usd >= 100 THEN 100
    ELSE 0

\* frequency bonus against frequency_thresholds (dex_model.py:35-40)
FrequencyBonus(n) ==
    IF n >= 50 THEN 200
    ELSE IF n >= 20 THEN 150
    ELSE IF n >= 5 THEN 100
    ELSE IF n >= 1 THEN 50
    ELSE 0

\* holding bonus against holding_time_thresholds (dex_model.py:42-47);
\* days100 is in hundredths of a day
HoldingBonus(days100) ==
    IF days100 >= 36500 THEN 200
    ELSE IF days100 >= 9000 THEN 150
    ELSE IF days100 >= 3000 THEN 100
    ELSE IF days100 >= 700 THEN 50
    ELSE 0

PoolBonus(pools) ==
    IF pools >= 5 THEN 100
    ELSE IF pools >= 3 THEN 50
    ELSE IF pools >= 1 THEN 25
    ELSE 0

\* _calculate_lp_score with the retention bonus taken from the share that was
\* withdrawn, total_withdraw_usd / total_deposit_usd
calculate_lp_score_withdrawn_share(f) ==
    LET base == VolumeBonus(f.total_deposit_usd)
                + FrequencyBonus(f.num_deposits)
                + HoldingBonus(f.avg_hold_time_days)
                + PoolBonus(f.unique_pools)
        retention ==
            IF f.total_deposit_usd > f.total_withdraw_usd
            THEN (10000 * f.total_withdraw_usd) \div f.total_deposit_usd
            ELSE 0
    IN Min2(100 * base + retention, 100000)

\* _calculate_lp_score, in hundredths
calculate_lp_score(f) ==
    LET base == VolumeBonus(f.total_deposit_usd)
                + FrequencyBonus(f.num_deposits)
                + HoldingBonus(f.avg_hold_time_days)
                + PoolBonus(f.unique_pools)
        retention ==
            IF f.total_deposit_usd > f.total_withdraw_usd
            THEN (10000 * (f.total_deposit_usd - f.total_withdraw_usd))
                    \div f.total_deposit_usd
            ELSE 0
    IN Min2(100 * base + retention, 100000)

SizeBonus(avg100) ==
    IF avg100 > 0
    THEN IF avg100 >= 100000 THEN 100
         ELSE IF avg100 >= 10000 THEN 75
         ELSE IF avg100 >= 1000 THEN 50
         ELSE 0
    ELSE 0

\* _calculate_swap_score, in hundredths
calculate_swap_score(f) ==
    Min2(100 * (VolumeBonus(f.total_swap_volume)
                + FrequencyBonus(f.num_swaps)
                + SizeBonus(f.avg_transaction_size_usd)
                + PoolBonus(f.unique_pools)),
         100000)

\* round(100000 / (1 + exp(-(c - 500) / 200))) for c = 0, 1, ..., 1000
LogisticTable == <<
    7586, 7621, 7656, 7692, 7727, 7763, 7799, 7835, 7871, 7907, 7944, 7980, 8017,
    8054, 8091, 8129, 8166, 8204, 8241, 8279, 8317, 8355, 8394, 8432, 8471, 8510,
    8549, 8588, 8627, 8667, 8707, 8746, 8786, 8827, 8867, 8907, 8948, 8989, 9030,
    9071, 9112, 9154, 9195, 9237, 9279, 9321, 9364, 9406, 9449, 9492, 9535, 9578,
    9622, 9665, 9709, 9753, 9797, 9841, 9886, 9930, 9975, 10020, 10065, 10111, 10156,
    10202, 10248, 10294, 10340, 10386, 10433, 10480, 10527, 10574, 10621, 10669, 10717, 10765,
    10813, 10861, 10910, 10958, 11007, 11056, 11106, 11155, 11205, 11255, 11305, 11355, 11405,
    11456, 11507, 11558, 11609, 11660, 11712, 11764, 11816, 11868, 11920, 11973, 12026, 12079,
    12132, 12185, 12239, 12293, 12347, 12401, 12455, 12510, 12565, 12620, 12675, 12731, 12786,
    12842, 12898, 12954, 13011, 13068, 13124, 13182, 13239, 13296, 13354, 13412, 13470, 13529,
    13587, 13646, 13705, 13764, 13824, 13883, 13943, 14003, 14064, 14124, 14185, 14246, 14307,
    14369, 14430, 14492, 14554, 14617, 14679, 14742, 14805, 14868, 14931, 14995, 15059, 15123,
    15187, 15252, 15316, 15381, 15447, 15512, 15578, 15643, 15710, 15776, 15842, 15909, 15976,
    16043, 16111, 16179, 16247, 16315, 16383, 16452, 16520, 16590, 16659, 16728, 16798, 16868,
    16938, 17009, 17080, 17150, 17222, 17293, 17365, 17437, 17509, 17581, 17654, 17726, 17799,
    17873, 17946, 18020, 18094, 18168, 18243, 18317, 18392, 18467, 18543, 18618, 18694, 18770,
    18847, 18923, 19000, 19077, 19155, 19232, 19310, 19388, 19466, 19545, 19623, 19702, 19782,
    19861, 19941, 20021, 20101, 20181, 20262, 20343, 20424, 20505, 20587, 20669, 20751, 20833,
    20916, 20999, 21082, 21165, 21249, 21332, 21417, 21501, 21585, 21670, 21755, 21840, 21926,
    22011, 22097, 22184, 22270, 22357, 22444, 22531, 22618, 22706, 22794, 22882, 22970, 23059,
    23148, 23237, 23326, 23415, 23505, 23595, 23685, 23776, 23867, 23958, 24049, 24140, 24232,
    24324, 24416, 24509, 24601, 24694, 24787, 24880, 24974, 25068, 25162, 25256, 25351, 25445,
    25540, 25636, 25731, 25827, 25923, 26019, 26115, 26212, 26308, 26405, 26503, 26600, 26698,
    26796, 26894, 26993, 27091, 27190, 27289, 27389, 27488, 27588, 27688, 27788, 27888, 27989,
    28090, 28191, 28292, 28394, 28496, 28598, 28700, 28802, 28905, 29008, 29111, 29214, 29318,
    29421, 29525, 29630, 29734, 29839, 29943, 30048, 30153, 30259, 30365, 30470, 30576, 30683,
    30789, 30896, 31003, 31110, 31217, 31324, 31432, 31540, 31648, 31756, 31865, 31973, 32082,
    32191, 32300, 32410, 32519, 32629, 32739, 32849, 32960, 33070, 33181, 33292, 33403, 33515,
    33626, 33738, 33850, 33962, 34074, 34186, 34299, 34412, 34525, 34638, 34751, 34865, 34978,
    35092, 35206, 35320, 35434, 35549, 35663, 35778, 35893, 36008, 36124, 36239, 36355, 36471,
    36586, 36703, 36819, 36935, 37052, 37168, 37285, 37402, 37519, 37637, 37754, 37872, 37989,
    38107, 38225, 38343, 38462, 38580, 38699, 38817, 38936, 39055, 39174, 39293, 39413, 39532,
    39652, 39771, 39891, 40011, 40131, 40251, 40372, 40492, 40613, 40733, 40854, 40975, 41096,
    41217, 41338, 41460, 41581, 41702, 41824, 41946, 42068, 42189, 42311, 42434, 42556, 42678,
    42800, 42923, 43045, 43168, 43291, 43413, 43536, 43659, 43782, 43905, 44029, 44152, 44275,
    44399, 44522, 44646, 44769, 44893, 45017, 45140, 45264, 45388, 45512, 45636, 45760, 45884,
    46009, 46133, 46257, 46381, 46506, 46630, 46755, 46879, 47004, 47128, 47253, 47377, 47502,
    47627, 47752, 47876, 48001, 48126, 48251, 48376, 48500, 48625, 48750, 48875, 49000, 49125,
    49250, 49375, 49500, 49625, 49750, 49875, 50000, 50125, 50250, 50375, 50500, 50625, 50750,
    50875, 51000, 51125, 51250, 51375, 51500, 51624, 51749, 51874, 51999, 52124, 52248, 52373,
    52498, 52623, 52747, 52872, 52996, 53121, 53245, 53370, 53494, 53619, 53743, 53867, 53991,
    54116, 54240, 54364, 54488, 54612, 54736, 54860, 54983, 55107, 55231, 55354, 55478, 55601,
    55725, 55848, 55971, 56095, 56218, 56341, 56464, 56587, 56709, 56832, 56955, 57077, 57200,
    57322, 57444, 57566, 57689, 57811, 57932, 58054, 58176, 58298, 58419, 58540, 58662, 58783,
    58904, 59025, 59146, 59267, 59387, 59508, 59628, 59749, 59869, 59989, 60109, 60229, 60348,
    60468, 60587, 60707, 60826, 60945, 61064, 61183, 61301, 61420, 61538, 61657, 61775, 61893,
    62011, 62128, 62246, 62363, 62481, 62598, 62715, 62832, 62948, 63065, 63181, 63297, 63414,
    63529, 63645, 63761, 63876, 63992, 64107, 64222, 64337, 64451, 64566, 64680, 64794, 64908,
    65022, 65135, 65249, 65362, 65475, 65588, 65701, 65814, 65926, 66038, 66150, 66262, 66374,
    66485, 66597, 66708, 66819, 66930, 67040, 67151, 67261, 67371, 67481, 67590, 67700, 67809,
    67918, 68027, 68135, 68244, 68352, 68460, 68568, 68676, 68783, 68890, 68997, 69104, 69211,
    69317, 69424, 69530, 69635, 69741, 69847, 69952, 70057, 70161, 70266, 70370, 70475, 70579,
    70682, 70786, 70889, 70992, 71095, 71198, 71300, 71402, 71504, 71606, 71708, 71809, 71910,
    72011, 72112, 72212, 72312, 72412, 72512, 72611, 72711, 72810, 72909, 73007, 73106, 73204,
    73302, 73400, 73497, 73595, 73692, 73788, 73885, 73981, 74077, 74173, 74269, 74364, 74460,
    74555, 74649, 74744, 74838, 74932, 75026, 75120, 75213, 75306, 75399, 75491, 75584, 75676,
    75768, 75860, 75951, 76042, 76133, 76224, 76315, 76405, 76495, 76585, 76674, 76763, 76852,
    76941, 77030, 77118, 77206, 77294, 77382, 77469, 77556, 77643, 77730, 77816, 77903, 77989,
    78074, 78160, 78245, 78330, 78415, 78499, 78583, 78668, 78751, 78835, 78918, 79001, 79084,
    79167, 79249, 79331, 79413, 79495, 79576, 79657, 79738, 79819, 79899, 79979, 80059, 80139,
    80218, 80298, 80377, 80455, 80534, 80612, 80690, 80768, 80845, 80923, 81000, 81077, 81153,
    81230, 81306, 81382, 81457, 81533, 81608, 81683, 81757, 81832, 81906, 81980, 82054, 82127,
    82201, 82274, 82346, 82419, 82491, 82563, 82635, 82707, 82778, 82850, 82920, 82991, 83062,
    83132, 83202, 83272, 83341, 83410, 83480, 83548, 83617, 83685, 83753, 83821, 83889, 83957,
    84024, 84091, 84158, 84224, 84290, 84357, 84422, 84488, 84553, 84619, 84684, 84748, 84813,
    84877, 84941, 85005, 85069, 85132, 85195, 85258, 85321, 85383, 85446, 85508, 85570, 85631,
    85693, 85754, 85815, 85876, 85936, 85997, 86057, 86117, 86176, 86236, 86295, 86354, 86413,
    86471, 86530, 86588, 86646, 86704, 86761, 86818, 86876, 86932, 86989, 87046, 87102, 87158,
    87214, 87269, 87325, 87380, 87435, 87490, 87545, 87599, 87653, 87707, 87761, 87815, 87868,
    87921, 87974, 88027, 88080, 88132, 88184, 88236, 88288, 88340, 88391, 88442, 88493, 88544,
    88595, 88645, 88695, 88745, 88795, 88845, 88894, 88944, 88993, 89042, 89090, 89139, 89187,
    89235, 89283, 89331, 89379, 89426, 89473, 89520, 89567, 89614, 89660, 89706, 89752, 89798,
    89844, 89889, 89935, 89980, 90025, 90070, 90114, 90159, 90203, 90247, 90291, 90335, 90378,
    90422, 90465, 90508, 90551, 90594, 90636, 90679, 90721, 90763, 90805, 90846, 90888, 90929,
    90970, 91011, 91052, 91093, 91133, 91173, 91214, 91254, 91293, 91333, 91373, 91412, 91451,
    91490, 91529, 91568, 91606, 91645, 91683, 91721, 91759, 91796, 91834, 91871, 91909, 91946,
    91983, 92020, 92056, 92093, 92129, 92165, 92201, 92237, 92273, 92308, 92344, 92379, 92414
>>

\* _normalize_score scaling against a maximum of 500 instead of the curve,
\* and without the clamp
normalize_score_raw(c100) == (c100 * 1000) \div 500

\* _normalize_score on a combined score in hundredths, result in hundredths
\* rounded as round(., 2): the logistic curve is read from LogisticTable and
\* interpolated linearly between whole points, then clamped to [0, 1000].
normalize_score(c100) ==
    LET c == Max2(0, Min2(c100, 100000))
        i == c \div 100
        fr == c % 100
        v == IF i >= 1000 THEN LogisticTable[1001]
             ELSE (LogisticTable[i + 1] * (100 - fr) + LogisticTable[i + 2] * fr + 50) \div 100
    IN Max2(0, Min2(100000, v))

\* _calculate_dex_score.  An empty transaction list makes
\* _transactions_to_dataframe sort a frame without columns by 'timestamp',
\* which raises KeyError; the error is logged and raised again.
calculate_dex_score(txs) ==
    IF txs = <<>> THEN [raised |-> TRUE]
    ELSE LET df == transactions_to_dataframe(txs)
             f == extract_dex_features(df)
             combined == (lp_weight * calculate_lp_score(f)
                          + swap_weight * calculate_swap_score(f)) \div 10
         IN [raised |-> FALSE,
             category |-> DEXES,
             score |-> normalize_score(combined),
             transaction_count |-> Len(txs),
             features |-> f]

\* _calculate_basic_protocol_score: CategoryFeatures declares no field
\* transaction_count, so the assignment on its second line raises ValueError
\* before any score is computed.
calculate_basic_protocol_score(b) == [raised |-> TRUE]

RECURSIVE ScoreBuckets(_, _, _, _)
\* the loop of process_wallet_data: cats collected so far, the weighted sum
\* (in hundredths, weights doubled) and the doubled weight
ScoreBuckets(data, cats, total2, weight2) ==
    IF data = <<>>
    THEN [raised |-> FALSE, categories |-> cats,
          total2 |-> total2, weight2 |-> weight2]
    ELSE LET b == Head(data)
             isDex == lower(b.protocolType) = DEXES
             cs == IF isDex THEN calculate_dex_score(b.transactions)
                   ELSE calculate_basic_protocol_score(b)
         IN IF cs.raised
            THEN [raised |-> TRUE, categories |-> <<>>, total2 |-> 0, weight2 |-> 0]
            ELSE ScoreBuckets(Tail(data),
                     Append(cats, [category |-> cs.category, score |-> cs.score,
                                   transaction_count |-> cs.transaction_count,
                                   features |-> cs.features]),
                     total2 + (IF isDex THEN 2 ELSE 1) * cs.score,
                     weight2 + (IF isDex THEN 2 ELSE 1))

\* The calls of process_wallet_data made so far on the one DEXScoringModel
\* the service holds (kafka_service.py:30), each with its input and its result
VARIABLE history

\* process_wallet_data without the guard total_weight > 0: a wallet without
\* buckets divides by zero
process_wallet_data_unguarded(data) ==
    LET r == ScoreBuckets(data, <<>>, 0, 0)
    IN IF r.raised \/ r.weight2 = 0
       THEN [raised |-> TRUE, categories |-> <<>>, overall |-> 0]
       ELSE [raised |-> FALSE, categories |-> r.categories,
             overall |-> r.total2 \div r.weight2]

\* process_wallet_data with total_score and total_weight kept on the instance
\* and not reset: the previous call's overall score is weighed in again
process_wallet_data_accumulating(data) ==
    LET prev == IF history = <<>> \/ history[Len(history)].result.raised
                THEN [total2 |-> 0, weight2 |-> 0]
                ELSE [total2 |-> 2 * history[Len(history)].result.overall,
                      weight2 |-> 2]
        r == ScoreBuckets(data, <<>>, prev.total2, prev.weight2)
    IN IF r.raised THEN [raised |-> TRUE, categories |-> <<>>, overall |-> 0]
       ELSE [raised |-> FALSE, categories |-> r.categories,
             overall |-> IF r.weight2 > 0 THEN r.total2 \div r.weight2 ELSE 0]

\* process_wallet_data: overall is total_score / total_weight in hundredths
\* (rounded down), 0 when no bucket was weighed
process_wallet_data(data) ==
    LET r == ScoreBuckets(data, <<>>, 0, 0)
    IN IF r.raised THEN [raised |-> TRUE, categories |-> <<>>, overall |-> 0]
       ELSE [raised |-> FALSE, categories |-> r.categories,
             overall |-> IF r.weight2 > 0 THEN r.total2 \div r.weight2 ELSE 0]

DecimalDigits == <<"0","1","2","3","4","5","6","7","8","9">>

RECURSIVE IntDigits(_)
\* the decimal digits of a natural number, without leading zeros
IntDigits(n) ==
    IF n < 10 THEN <<DecimalDigits[n + 1]>>
    ELSE Append(IntDigits(n \div 10), DecimalDigits[(n % 10) + 1])

\* the two decimals a score in hundredths carries
Hundredths(v100) ==
    <<DecimalDigits[((v100 % 100) \div 10) + 1], DecimalDigits[(v100 % 10) + 1]>>

\* str(overall_score): the shortest decimal that reads back, which drops the
\* trailing zeros (0.0, 25.5, 616.58)
format_repr(v100) ==
    IntDigits(v100 \div 100) \o <<".">>
    \o (IF v100 % 10 = 0 THEN <<DecimalDigits[((v100 % 100) \div 10) + 1]>>
        ELSE Hundredths(v100))

\* f"{overall_score:.18f}": the integer part, a point and 18 decimals.  Of a
\* score in hundredths the decimals after the second are zeros (the binary
\* float changes digits there, never their number).
format_18f(v100) ==
    IntDigits(v100 \div 100) \o <<".">> \o Hundredths(v100) \o Rep("0", 16)

----------------------------------------------------------------------------
(* Payloads *)

ValidAddr == <<"0","x">> \o Rep("a", 40)
NonHexAddr == <<"0","x">> \o Rep("z", 40)
InvalidAddress == <<"i","n","v","a","l","i","d","_","a","d","d","r","e","s","s">>

Tx(action, ts, pool, tin, tout, t0, t1) ==
    [action |-> action, timestamp |-> ts, poolId |-> pool,
     tokenIn |-> tin, tokenOut |-> tout, token0 |-> t0, token1 |-> t1]

\* the two transactions of TEST_WALLET_DATA (test_challenge.py:20-71)
TxSwap == Tx("swap", 1703980800, "pool1", 1000, 1000, 0, 0)
TxDeposit == Tx("deposit", 1703980900, "pool1", 0, 0, 500, 500)
TxOtherPool == Tx("swap", 1704067200, "pool2", 50, 50, 0, 0)
TxStake == Tx("stake", 1703980800, "pool1", 0, 0, 0, 0)

Bucket(ptype, txs) ==
    [obj |-> TRUE, has |-> {"protocolType", "transactions"},
     protocolType |-> ptype, transactions |-> txs]

DexBucket == Bucket(DEXES, <<TxSwap, TxDeposit>>)
LendingBucket == Bucket(LENDING, <<TxSwap, TxDeposit, TxOtherPool>>)
StakeBucket == Bucket(DEXES_UPPER, <<TxStake, TxSwap>>)
\* a data element that is not a JSON object (a string, a number)
ScalarBucket == [obj |-> FALSE, has |-> {}, protocolType |-> <<>>, transactions |-> <<>>]

\* a payload json.loads turns into a dict
Payload(addr, data) ==
    [json |-> TRUE, obj |-> TRUE, has |-> {"wallet_address", "data"},
     wallet_address |-> addr, data |-> data]

MsgValid == Payload(ValidAddr, <<DexBucket>>)
MsgEmptyData == Payload(ValidAddr, <<>>)
MsgInvalidAddress == Payload(InvalidAddress, <<>>)
MsgNonHex == Payload(NonHexAddr, <<DexBucket>>)
MsgLending == Payload(ValidAddr, <<DexBucket, LendingBucket>>)
MsgBadAction == Payload(ValidAddr, <<DexBucket, StakeBucket>>)
MsgScalarBucket == Payload(ValidAddr, <<DexBucket, ScalarBucket>>)
\* bytes that are not JSON
MsgNotJson ==
    [json |-> FALSE, obj |-> FALSE, has |-> {}, wallet_address |-> <<>>, data |-> <<>>]

\* what the input topic may carry
Messages ==
    {MsgValid, MsgEmptyData, MsgInvalidAddress, MsgNonHex, MsgLending,
     MsgBadAction, MsgScalarBucket, MsgNotJson}

\* int((time.time() - start_time) * 1000) as measured for one message
ProcessingTimes == {MaxProcMs}

\* a large liquidity provider and trader: every bonus of the two scores
TxWhaleDeposit == Tx("add_liquidity", 1703980800, "pool1", 0, 0, 100000, 100000)
TxWhaleSwap == Tx("swap", 1704067200, "pool2", 200000, 200000, 0, 0)
TxWithdraw == Tx("remove_liquidity", 1704153600, "pool3", 0, 0, 50, 50)

WhaleBucket == Bucket(DEXES, <<TxWhaleDeposit, TxWhaleSwap, TxWithdraw>>)
UpperBucket == Bucket(DEXES_UPPER, <<TxOtherPool>>)
EmptyDexBucket == Bucket(DEXES, <<>>)

\* data lists of valid WalletTransactionInput values
Wallets ==
    {<<>>, <<DexBucket>>, <<WhaleBucket>>, <<WhaleBucket, WhaleBucket>>,
     <<UpperBucket, DexBucket>>, <<LendingBucket>>, <<DexBucket, LendingBucket>>,
     <<EmptyDexBucket>>}

\* transaction lists of "dexes" buckets: those of the wallets above, the
\* same transactions listed in another order, and two of the same second
DexTransactionLists ==
    {<<TxSwap, TxDeposit>>, <<TxDeposit, TxSwap>>,
     <<TxWhaleDeposit, TxWhaleSwap, TxWithdraw>>,
     <<TxWithdraw, TxWhaleSwap, TxWhaleDeposit>>,
     <<TxWhaleSwap, TxWhaleDeposit, TxWithdraw>>,
     <<TxSwap, TxWhaleDeposit>>, <<TxWhaleDeposit, TxSwap>>}

\* total_deposit_usd below, at and above each volume threshold
DepositLevels == {0, 99, 100, 999, 1000, 9999, 10000, 99999, 100000, 200000}
WithdrawLevels == {0, 5000}

\* CategoryFeatures values that differ in the two totals alone
LpFeatureSets ==
    {[extract_dex_features(<<TxWhaleDeposit, TxWhaleSwap, TxWithdraw>>)
        EXCEPT !.total_deposit_usd = d, !.total_withdraw_usd = w] :
      d \in DepositLevels, w \in WithdrawLevels}

\* bodies posted to /api/v1/process-wallet
Requests ==
    {Payload(ValidAddr, data) : data \in Wallets}
    \cup {MsgInvalidAddress, MsgNonHex, MsgBadAction}

----------------------------------------------------------------------------
(* Stream processor: app/services/kafka_service.py *)

PlaceholderCategories == <<[category |-> UNKNOWN, transaction_count |-> 0]>>

RECURSIVE ErrorCategoryList(_)
ErrorCategoryList(data) ==
    IF data = <<>> THEN <<>>
    ELSE <<[category |-> IF "protocolType" \in Head(data).has
                         THEN Head(data).protocolType ELSE UNKNOWN,
            transaction_count |-> IF "transactions" \in Head(data).has
                                  THEN Len(Head(data).transactions) ELSE 0]>>
         \o ErrorCategoryList(Tail(data))

\* _create_error_categories: one CategoryError per bucket; any exception in
\* the loop (a bucket without .get) replaces the whole list by one placeholder
create_error_categories(m) ==
    IF ~m.obj \/ "data" \notin m.has THEN <<>>
    ELSE IF \E i \in 1..Len(m.data) : ~m.data[i].obj THEN PlaceholderCategories
    ELSE ErrorCategoryList(m.data)

\* _update_stats with the else branch lost: a failure is not counted
update_stats_no_failure(s, success, processing_time_ms, wallet_address) ==
    [total_wallets_processed |-> s.total_wallets_processed + 1,
     total_processing_time_ms |-> s.total_processing_time_ms + processing_time_ms,
     successful_wallets |-> s.successful_wallets + (IF success THEN 1 ELSE 0),
     failed_wallets |-> s.failed_wallets,
     last_processed_wallet |-> wallet_address]

\* _update_stats
update_stats(s, success, processing_time_ms, wallet_address) ==
    [total_wallets_processed |-> s.total_wallets_processed + 1,
     total_processing_time_ms |-> s.total_processing_time_ms + processing_time_ms,
     successful_wallets |-> s.successful_wallets + (IF success THEN 1 ELSE 0),
     failed_wallets |-> s.failed_wallets + (IF success THEN 0 ELSE 1),
     last_processed_wallet |-> wallet_address]

\* Outcome of producer.send(...) followed by future.get(timeout=10):
\*   "ack"   the broker confirmed the record
\*   "error" the send failed, the record is not on the topic, get raises
\*   "late"  get timed out and raises, the record still reaches the topic
PublishOutcomes == {"ack", "error", "late"}

Delivered(o) == o \in {"ack", "late"}
Raises(o) == o # "ack"

\* the try block of _process_message up to the publish: validation and
\* scoring; attempts counts the publishes made for the message so far
Prepare(offset, m, ms) ==
    IF ~m.obj
    THEN [offset |-> offset, msg |-> m, kind |-> "processing",
          wallet_address |-> UNKNOWN, processing_time_ms |-> ms,
          categories |-> <<>>, overall |-> 0, attempts |-> 0]
    ELSE IF ValidationFails(m)
    THEN [offset |-> offset, msg |-> m, kind |-> "validation",
          wallet_address |-> UNKNOWN, processing_time_ms |-> ms,
          categories |-> <<>>, overall |-> 0, attempts |-> 0]
    ELSE LET r == process_wallet_data(m.data)
         IN [offset |-> offset, msg |-> m,
             kind |-> IF r.raised THEN "processing" ELSE "success",
             wallet_address |-> m.wallet_address, processing_time_ms |-> ms,
             categories |-> r.categories, overall |-> r.overall,
             attempts |-> 0]

\* the WalletScoreSuccess of lines 151-157 as it stands on the success topic;
\* acked says whether future.get returned the record's metadata to the caller
SuccessRecord(c, o) ==
    [offset |-> c.offset, wallet_address |-> c.wallet_address,
     overall |-> c.overall, zscore |-> format_18f(c.overall),
     processing_time_ms |-> c.processing_time_ms,
     categories |-> c.categories, acked |-> (o = "ack")]

\* the failure record an except branch of _process_message builds
FailureRecord(c, error, o) ==
    [offset |-> c.offset, wallet_address |-> c.wallet_address, error |-> error,
     processing_time_ms |-> c.processing_time_ms,
     categories |-> create_error_categories(c.msg), acked |-> (o = "ack")]

\* the failure record of the except branch of start_consuming
LoopFailureRecord(c, o) ==
    [offset |-> c.offset, wallet_address |-> UNKNOWN,
     error |-> "Message processing failed", processing_time_ms |-> 0,
     categories |-> <<>>, acked |-> (o = "ack")]

NoMessage == [offset |-> 0]

----------------------------------------------------------------------------
(* State *)

VARIABLES
    pc,             \* where the consumer task (start_consuming) stands
    batch,          \* records of the polled batch not handled yet
    polled,         \* records fetched so far; the next record's offset is polled + 1
    cur,            \* the message _process_message is handling, NoMessage if none
    stats,          \* KafkaService.stats
    successTopic,   \* records on the success topic, in order
    failureTopic,   \* records on the failure topic, in order
    consumer,       \* the KafkaConsumer: calls of close, whether it is closed
    producer,       \* the KafkaProducer: calls of flush and close, flushed, closed
    lifespan,       \* the application: "running", "stopping", "exited"
    exitReason,     \* why the loop of start_consuming was left, "none" while it runs
    undecodable,    \* offsets of fetched records whose bytes are not JSON
    last,           \* the last message whose handling ended: statistics before and after
    mongo,          \* the MongoClient of the metadata store: opened, closed
    response,       \* the HTTP response a handler is returning, NoResponse if none
    calls           \* calls of the scoring model's private methods, with results

vars == <<pc, batch, polled, cur, stats, successTopic, failureTopic, consumer,
          producer, lifespan, exitReason, undecodable, last, mongo, response,
          history, calls>>

\* KafkaService.__init__: the statistics
InitStats ==
    [total_wallets_processed |-> 0,
     total_processing_time_ms |-> 0,
     successful_wallets |-> 0,
     failed_wallets |-> 0,
     last_processed_wallet |-> <<>>]

NoLast == [offset |-> 0, kind |-> "none", msg |-> MsgEmptyData,
           before |-> InitStats, after |-> InitStats, stopped |-> FALSE,
           attempts |-> 0]

NoResponse == [endpoint |-> "none"]

\* the process before the startup block of lifespan has run: no client is
\* open, the consumer task is not created
Init ==
    /\ pc = "not_created"
    /\ batch = <<>>
    /\ polled = 0
    /\ cur = NoMessage
    /\ stats = InitStats
    /\ successTopic = <<>>
    /\ failureTopic = <<>>
    /\ consumer = [opened |-> FALSE, close_calls |-> 0, closed |-> FALSE]
    /\ producer = [opened |-> FALSE, flush_calls |-> 0, flushed |-> FALSE,
                   close_calls |-> 0, closed |-> FALSE]
    /\ lifespan = "starting"
    /\ exitReason = "none"
    /\ undecodable = {}
    /\ last = NoLast
    /\ mongo = [opened |-> FALSE, closed |-> FALSE]
    /\ response = NoResponse
    /\ history = <<>>
    /\ calls = <<>>

----------------------------------------------------------------------------
(* Startup *)

\* how the startup block of lifespan ends: every client comes up, or the
\* constructor of the one named raises (MongoDBService of line 55, the
\* KafkaConsumer or the KafkaProducer inside KafkaService of line 63)
StartupOutcomes == {"ok", "mongo", "consumer", "producer"}

\* lifespan, lines 53-74.  The constructors run in the order MongoClient,
\* KafkaConsumer, KafkaProducer; create_indexes logs its errors and goes on.
\* The first that raises ends the block: the except of line 72 logs the error
\* and raises it again to the server, as the except of _init_kafka_clients
\* (line 87) did before it.  Neither closes what was opened.
Startup ==
    /\ lifespan = "starting"
    /\ \E o \in StartupOutcomes :
        /\ mongo' = [mongo EXCEPT !.opened = (o # "mongo")]
        /\ consumer' = [consumer EXCEPT !.opened = (o \in {"ok", "producer"})]
        /\ producer' = [producer EXCEPT !.opened = (o = "ok")]
        /\ lifespan' = IF o = "ok" THEN "running" ELSE "failed"
        /\ pc' = IF o = "ok" THEN "poll" ELSE "not_created"
    /\ UNCHANGED <<batch, polled, cur, stats, successTopic, failureTopic,
                   exitReason, undecodable, last, response, history, calls>>

----------------------------------------------------------------------------
(* The consumer task *)

\* batches consumer.poll may return: up to MaxBatch records of one partition
Batches == UNION {[1..n -> Messages] : n \in 0..MaxBatch}

WithOffsets(b) == [i \in 1..Len(b) |-> [offset |-> polled + i, msg |-> b[i]]]

\* start_consuming, line 98: consumer.poll.  The value_deserializer
\* (json.loads, line 66) runs inside poll, so bytes that are not JSON make
\* poll raise; the error reaches the outer except Exception of line 123.
Poll ==
    /\ pc = "poll"
    /\ \E b \in Batches :
        /\ polled + Len(b) <= MaxPolled
        /\ polled' = polled + Len(b)
        /\ IF \E i \in 1..Len(b) : ~b[i].json
           THEN /\ undecodable' = undecodable \cup {polled + i : i \in {j \in 1..Len(b) : ~b[j].json}}
                /\ batch' = <<>>
                /\ pc' = "finally"
                /\ exitReason' = "poll_error"
           ELSE /\ batch' = WithOffsets(b)
                /\ pc' = IF b = <<>> THEN "sleep" ELSE "process"
                /\ UNCHANGED <<undecodable, exitReason>>
    /\ UNCHANGED <<cur, stats, successTopic, failureTopic, consumer, producer,
                   lifespan, last>>
    /\ response' = NoResponse
    /\ UNCHANGED <<mongo, history, calls>>

\* _process_message, lines 130-157 and the heads of its except branches:
\* the next message of the batch is validated and scored
ProcessMessage ==
    /\ pc = "process"
    /\ batch # <<>>
    /\ \E ms \in ProcessingTimes :
        LET c == Prepare(Head(batch).offset, Head(batch).msg, ms)
        IN /\ cur' = c
           /\ pc' = IF c.kind = "success" THEN "publish_success" ELSE "publish_failure"
    /\ batch' = Tail(batch)
    /\ UNCHANGED <<polled, stats, successTopic, failureTopic, consumer, producer,
                   lifespan, exitReason,
                   undecodable, last>>
    /\ response' = NoResponse
    /\ UNCHANGED <<mongo, history, calls>>

\* the for loops of start_consuming go on: next message, or sleep and poll
NextPc == IF batch = <<>> THEN "sleep" ELSE "process"

\* a publish that raised is made again until it is acknowledged
OnPublishErrorRetry(site) == site

\* where an exception of a publish is caught: the one of _publish_success
\* (line 160) by the except Exception of line 184, which publishes a failure
\* record; the one of that _publish_failure (lines 174, 188) by the except of
\* start_consuming (line 104), which publishes once more (line 112); the one
\* of that publish by the except of line 123, which leaves the loop
OnPublishError(site) ==
    CASE site = "publish_success" -> "publish_failure"
      [] site = "publish_failure" -> "loop_except"
      [] site = "loop_except" -> "finally"

\* the handling of cur ends with the publish under way
Ended(newStats, stop) ==
    /\ last' = [offset |-> cur.offset, kind |-> cur.kind, msg |-> cur.msg,
                before |-> stats, after |-> newStats, stopped |-> stop,
                attempts |-> cur.attempts + 1]
    /\ stats' = newStats
    /\ cur' = NoMessage

\* _process_message, lines 159-168: _publish_success, then _update_stats(True).
\* When the publish raises, the except Exception branch of line 184 takes
\* over and measures the processing time again (line 185); cur.kind becomes
\* "publish", a scored message whose success publish raised.
PublishSuccess ==
    /\ pc = "publish_success"
    /\ \E o \in PublishOutcomes :
        /\ successTopic' = IF Delivered(o)
                           THEN Append(successTopic, SuccessRecord(cur, o))
                           ELSE successTopic
        /\ IF Raises(o)
           THEN /\ pc' = OnPublishError(pc)
                /\ \E ms \in ProcessingTimes :
                        cur' = [cur EXCEPT !.processing_time_ms = ms,
                                           !.kind = "publish",
                                           !.attempts = @ + 1]
                /\ UNCHANGED <<stats, last>>
           ELSE /\ pc' = NextPc
                /\ Ended(update_stats(stats, TRUE, cur.processing_time_ms,
                                      cur.wallet_address), FALSE)
    /\ UNCHANGED <<batch, polled, failureTopic, consumer, producer, lifespan,
                   exitReason, undecodable>>
    /\ response' = NoResponse
    /\ UNCHANGED <<mongo, history, calls>>

ErrorPrefix(c) == IF c.kind = "validation" THEN "Validation error" ELSE "Processing error"

\* _process_message, lines 170-196: _publish_failure, then _update_stats(False).
\* When the publish raises, the exception leaves _process_message.
PublishFailure ==
    /\ pc = "publish_failure"
    /\ \E o \in PublishOutcomes :
        /\ failureTopic' = IF Delivered(o)
                           THEN Append(failureTopic, FailureRecord(cur, ErrorPrefix(cur), o))
                           ELSE failureTopic
        /\ IF Raises(o)
           THEN /\ pc' = OnPublishError(pc)
                /\ cur' = [cur EXCEPT !.attempts = @ + 1]
                /\ UNCHANGED <<stats, last>>
           ELSE /\ pc' = NextPc
                /\ Ended(update_stats(stats, FALSE, cur.processing_time_ms,
                                      cur.wallet_address), FALSE)
    /\ UNCHANGED <<batch, polled, successTopic, consumer, producer, lifespan,
                   exitReason, undecodable>>
    /\ response' = NoResponse
    /\ UNCHANGED <<mongo, history, calls>>

\* start_consuming, lines 104-116: the except branch around _process_message
\* publishes a failure record for "unknown"; it updates no statistics, and a
\* publish that raises here leaves both for loops and the while loop
LoopExcept ==
    /\ pc = "loop_except"
    /\ \E o \in PublishOutcomes :
        /\ failureTopic' = IF Delivered(o)
                           THEN Append(failureTopic, LoopFailureRecord(cur, o))
                           ELSE failureTopic
        /\ IF Raises(o)
           THEN /\ pc' = OnPublishError(pc)
                /\ exitReason' = "publish_error"
                /\ Ended(stats, TRUE)
           ELSE /\ pc' = NextPc
                /\ exitReason' = exitReason
                /\ Ended(stats, FALSE)
    /\ UNCHANGED <<batch, polled, successTopic, consumer, producer, lifespan, undecodable>>
    /\ response' = NoResponse
    /\ UNCHANGED <<mongo, history, calls>>

\* start_consuming, line 119: asyncio.sleep(0.1) returns and the loop polls again
Wake ==
    /\ pc = "sleep"
    /\ lifespan = "running"
    /\ pc' = "poll"
    /\ UNCHANGED <<batch, polled, cur, stats, successTopic, failureTopic, consumer,
                   producer, lifespan, exitReason, undecodable, last>>
    /\ response' = NoResponse
    /\ UNCHANGED <<mongo, history, calls>>

----------------------------------------------------------------------------
(* Shutdown *)

\* KafkaService.shutdown, lines 309-311: consumer.close(); an exception is
\* logged by the except of line 318
shutdown_consumer(cons, closeRaises) ==
    [cons EXCEPT !.close_calls = @ + 1,
                 !.closed = cons.closed \/ ~closeRaises]

\* KafkaService.shutdown, lines 313-316: producer.flush(timeout=10) and
\* producer.close() stand in the same try block after consumer.close(), so
\* an exception of an earlier call skips them
shutdown_producer(prod, closeRaises, flushRaises) ==
    IF closeRaises THEN prod
    ELSE IF flushRaises
    THEN [prod EXCEPT !.flush_calls = @ + 1]
    ELSE [prod EXCEPT !.flush_calls = @ + 1, !.flushed = TRUE,
                      !.close_calls = @ + 1, !.closed = TRUE]

\* start_consuming, lines 125-126: the finally clause runs shutdown().  After
\* sys.exit the SystemExit then leaves the event loop and the process ends.
WorkerFinally ==
    /\ pc = "finally"
    /\ \E closeRaises \in BOOLEAN, flushRaises \in BOOLEAN :
        /\ consumer' = shutdown_consumer(consumer, closeRaises)
        /\ producer' = shutdown_producer(producer, closeRaises, flushRaises)
    /\ pc' = "stopped"
    /\ lifespan' = IF exitReason = "sys_exit" THEN "exited" ELSE lifespan
    /\ UNCHANGED <<batch, polled, cur, stats, successTopic, failureTopic,
                   exitReason, undecodable, last>>
    /\ response' = NoResponse
    /\ UNCHANGED <<mongo, history, calls>>

\* lifespan, lines 81-89: consumer_task.cancel() and the await of the task.
\* The event loop runs this only while the consumer task is suspended, which
\* it is in asyncio.sleep alone: poll and future.get block the loop.  The
\* CancelledError is raised at the sleep and passes except Exception.
StopConsumer ==
    /\ lifespan = "running"
    /\ pc \in {"sleep", "stopped"}
    /\ lifespan' = "stopping"
    /\ IF pc = "sleep"
       THEN pc' = "finally" /\ exitReason' = "cancelled"
       ELSE UNCHANGED <<pc, exitReason>>
    /\ UNCHANGED <<batch, polled, cur, stats, successTopic, failureTopic, consumer,
                   producer, undecodable, last>>
    /\ response' = NoResponse
    /\ UNCHANGED <<mongo, history, calls>>

\* MongoDBService.close (mongodb_service.py:267-274): client.close(); an
\* exception is logged
close_mongo(m, closeRaises) == [m EXCEPT !.closed = m.closed \/ ~closeRaises]

\* lifespan, lines 91-101: once the task has ended, kafka_service.shutdown()
\* is called again, the store is closed and the application exits
LifespanShutdown ==
    /\ lifespan = "stopping"
    /\ pc = "stopped"
    /\ \E closeRaises \in BOOLEAN, flushRaises \in BOOLEAN :
        /\ consumer' = shutdown_consumer(consumer, closeRaises)
        /\ producer' = shutdown_producer(producer, closeRaises, flushRaises)
    /\ \E mongoRaises \in BOOLEAN : mongo' = close_mongo(mongo, mongoRaises)
    /\ lifespan' = "exited"
    /\ response' = NoResponse
    /\ UNCHANGED <<history, calls>>
    /\ UNCHANGED <<pc, batch, polled, cur, stats, successTopic, failureTopic,
                   exitReason, undecodable, last>>

InFlight == pc \in {"publish_success", "publish_failure", "loop_except"}

\* the record the publish step of pc is sending; its acknowledgement is not
\* seen by the caller any more
PendingRecord ==
    IF pc = "publish_success" THEN SuccessRecord(cur, "late")
    ELSE IF pc = "publish_failure" THEN FailureRecord(cur, ErrorPrefix(cur), "late")
    ELSE LoopFailureRecord(cur, "late")

\* signal_handler (main.py:254-261): on SIGINT or SIGTERM sys.exit(0) raises
\* SystemExit in the main thread wherever it executes.  Inside the consumer
\* task it passes every except Exception and reaches the finally clause; a
\* record already handed to the producer may still reach its topic.  At the
\* sleep the event loop ends and the task is cancelled there.
SignalHandler ==
    /\ lifespan = "running"
    /\ pc \in {"poll", "process", "publish_success", "publish_failure",
               "loop_except", "sleep"}
    /\ pc' = "finally"
    /\ exitReason' = "sys_exit"
    /\ \E sent \in BOOLEAN :
        /\ sent => InFlight
        /\ successTopic' = IF sent /\ pc = "publish_success"
                           THEN Append(successTopic, PendingRecord)
                           ELSE successTopic
        /\ failureTopic' = IF sent /\ pc \in {"publish_failure", "loop_except"}
                           THEN Append(failureTopic, PendingRecord)
                           ELSE failureTopic
    /\ UNCHANGED <<batch, polled, cur, stats, consumer, producer, lifespan,
                   undecodable, last>>
    /\ response' = NoResponse
    /\ UNCHANGED <<mongo, history, calls>>

\* signal_handler once the consumer task has ended: the process exits at once
SignalExit ==
    /\ lifespan = "running"
    /\ pc = "stopped"
    /\ lifespan' = "exited"
    /\ UNCHANGED <<pc, batch, polled, cur, stats, successTopic, failureTopic,
                   consumer, producer, exitReason, undecodable, last>>
    /\ response' = NoResponse
    /\ UNCHANGED <<mongo, history, calls>>

----------------------------------------------------------------------------
(* The HTTP surface *)

\* KafkaService.get_stats: a copy of the statistics, with the average
\* processing time (in hundredths of a millisecond, rounded down)
get_stats(s) ==
    [total_wallets_processed |-> s.total_wallets_processed,
     total_processing_time_ms |-> s.total_processing_time_ms,
     successful_wallets |-> s.successful_wallets,
     failed_wallets |-> s.failed_wallets,
     last_processed_wallet |-> s.last_processed_wallet,
     average_processing_time_ms |->
        IF s.total_wallets_processed > 0
        THEN (100 * s.total_processing_time_ms) \div s.total_wallets_processed
        ELSE 0]

\* request handlers run in threads of their own, whatever the consumer task
\* is doing
HandlerMayRunAnytime == lifespan = "running"

\* The event loop runs a request handler only while the consumer task is
\* suspended or has ended.  The task yields to the loop at asyncio.sleep
\* (kafka_service.py:119) alone: consumer.poll and future.get block the
\* thread, and the coroutines the task awaits never suspend.
HandlerMayRun == lifespan = "running" /\ pc \in {"sleep", "stopped"}

\* GET /api/v1/stats (main.py:161-181)
GetStats ==
    /\ HandlerMayRun
    /\ response' = [endpoint |-> "stats", status |-> 200, body |-> get_stats(stats)]
    /\ UNCHANGED <<pc, batch, polled, cur, stats, successTopic, failureTopic,
                   consumer, producer, lifespan, exitReason, undecodable, last,
                   mongo, history, calls>>

\* process_wallet_sync, lines 198-232: validation and scoring as in the
\* consumer task, on a DEXScoringModel of its own; every exception becomes
\* the response 500
process_wallet_sync(wallet_data) ==
    IF ValidationFails(wallet_data)
    THEN [status |-> 500, wallet_address |-> <<>>, zscore |-> <<>>, categories |-> <<>>]
    ELSE LET r == process_wallet_data(wallet_data.data)
         IN IF r.raised
            THEN [status |-> 500, wallet_address |-> <<>>, zscore |-> <<>>,
                  categories |-> <<>>]
            ELSE [status |-> 200, wallet_address |-> wallet_data.wallet_address,
                  zscore |-> format_18f(r.overall), categories |-> r.categories]

\* POST /api/v1/process-wallet (main.py:184-232); the statistics the handler
\* found are kept with the response
ProcessWalletSync ==
    /\ HandlerMayRun
    /\ \E wallet_data \in Requests :
        response' = [endpoint |-> "process-wallet", request |-> wallet_data,
                     stats_before |-> stats,
                     body |-> process_wallet_sync(wallet_data)]
    /\ UNCHANGED <<pc, batch, polled, cur, stats, successTopic, failureTopic,
                   consumer, producer, lifespan, exitReason, undecodable, last,
                   mongo, history, calls>>

\* _process_message, lines 145-157, on the service's scoring model: the
\* wallet's data is scored and the zscore of the success message formatted
ScoreWallet ==
    /\ lifespan = "running"
    /\ Len(history) < MaxCalls
    /\ \E data \in Wallets :
        LET r == process_wallet_data(data)
        IN history' = Append(history,
                [data |-> data, result |-> r,
                 zscore |-> IF r.raised THEN <<>> ELSE format_18f(r.overall)])
    /\ response' = NoResponse
    /\ UNCHANGED <<pc, batch, polled, cur, stats, successTopic, failureTopic,
                   consumer, producer, lifespan, exitReason, undecodable, last,
                   mongo, calls>>

----------------------------------------------------------------------------
(* The private methods of the scoring model *)

\* _calculate_dex_score on the transactions of a "dexes" bucket
CalculateDexScore ==
    /\ lifespan = "running"
    /\ Len(calls) < MaxModelCalls
    /\ \E txs \in DexTransactionLists :
        calls' = Append(calls,
                    [method |-> "_calculate_dex_score", transactions |-> txs,
                     result |-> calculate_dex_score(txs)])
    /\ response' = NoResponse
    /\ UNCHANGED <<pc, batch, polled, cur, stats, successTopic, failureTopic,
                   consumer, producer, lifespan, exitReason, undecodable, last,
                   mongo, history>>

\* _calculate_lp_score on a CategoryFeatures value
CalculateLpScore ==
    /\ lifespan = "running"
    /\ Len(calls) < MaxModelCalls
    /\ \E f \in LpFeatureSets :
        calls' = Append(calls,
                    [method |-> "_calculate_lp_score", features |-> f,
                     score |-> calculate_lp_score(f)])
    /\ response' = NoResponse
    /\ UNCHANGED <<pc, batch, polled, cur, stats, successTopic, failureTopic,
                   consumer, producer, lifespan, exitReason, undecodable, last,
                   mongo, history>>

\* _extract_dex_features on the frame of a bucket; a statement of its try
\* block may raise (raisedAt names its feature) or none does (NoFault)
ExtractDexFeatures ==
    /\ lifespan = "running"
    /\ Len(calls) < MaxModelCalls
    /\ \E txs \in {<<TxSwap, TxDeposit>>, <<TxWhaleDeposit, TxWhaleSwap, TxWithdraw>>},
          raisedAt \in 1..NoFault :
        LET df == transactions_to_dataframe(txs)
        IN calls' = Append(calls,
                    [method |-> "_extract_dex_features", df |-> df,
                     raisedAt |-> raisedAt,
                     features |-> extract_dex_features_raising(df, raisedAt)])
    /\ response' = NoResponse
    /\ UNCHANGED <<pc, batch, polled, cur, stats, successTopic, failureTopic,
                   consumer, producer, lifespan, exitReason, undecodable, last,
                   mongo, history>>

----------------------------------------------------------------------------
(* Specifications *)

Next ==
    \/ Startup
    \/ GetStats
    \/ Poll
    \/ ProcessMessage
    \/ PublishSuccess
    \/ PublishFailure
    \/ LoopExcept
    \/ Wake
    \/ WorkerFinally
    \/ StopConsumer
    \/ LifespanShutdown
    \/ SignalHandler
    \/ SignalExit

\* the service: startup, the consumer task, the statistics query, shutdown
Spec == Init /\ [][Next]_vars

\* the running application while the input topic is empty: every client is
\* open, the consumer task sleeps between two polls
InitScore ==
    /\ pc = "sleep"
    /\ batch = <<>>
    /\ polled = 0
    /\ cur = NoMessage
    /\ stats = InitStats
    /\ successTopic = <<>>
    /\ failureTopic = <<>>
    /\ consumer = [opened |-> TRUE, close_calls |-> 0, closed |-> FALSE]
    /\ producer = [opened |-> TRUE, flush_calls |-> 0, flushed |-> FALSE,
                   close_calls |-> 0, closed |-> FALSE]
    /\ lifespan = "running"
    /\ exitReason = "none"
    /\ undecodable = {}
    /\ last = NoLast
    /\ mongo = [opened |-> TRUE, closed |-> FALSE]
    /\ response = NoResponse
    /\ history = <<>>
    /\ calls = <<>>

NextScore ==
    \/ ScoreWallet
    \/ ProcessWalletSync

\* scoring alone: wallets scored one after the other on the service's model,
\* and posted to the process-wallet endpoint
SpecScore == InitScore /\ [][NextScore]_vars

NextDexModel ==
    \/ CalculateDexScore
    \/ CalculateLpScore
    \/ ExtractDexFeatures

\* the DEX model alone: its private methods called one after the other
SpecDexModel == InitScore /\ [][NextDexModel]_vars

----------------------------------------------------------------------------
(* Properties *)

HexChars == {"0","1","2","3","4","5","6","7","8","9",
             "a","b","c","d","e","f","A","B","C","D","E","F"}

\* the address contract as worded: 0x followed by 40 hexadecimal characters
IsHexAddress(v) ==
    /\ Len(v) = 42
    /\ v[1] = "0" /\ v[2] = "x"
    /\ \A i \in 3..42 : v[i] \in HexChars

\* number of records on a topic that answer the input record at offset k
RecordsFor(topic, k) == Cardinality({i \in 1..Len(topic) : topic[i].offset = k})

\* the input records whose handling has ended
HandledOffsets == 1..last.offset

\* C1: in every reachable state the statistics balance: successful_wallets
\* plus failed_wallets equals total_wallets_processed, whatever the messages
\* and whatever the outcomes of the publishes were.
C1_StatsBalance ==
    stats.successful_wallets + stats.failed_wallets = stats.total_wallets_processed

\* C1 witness: a success and a failure have been counted, the failure being a
\* scored message whose success publish raised after its record went out.
C1_Witness ==
    /\ stats.successful_wallets >= 1
    /\ stats.failed_wallets >= 1
    /\ \E k \in HandledOffsets :
        RecordsFor(successTopic, k) = 1 /\ RecordsFor(failureTopic, k) = 1

\* C2: when the handling of a message has ended, total_wallets_processed has
\* grown by exactly 1, exactly one of successful_wallets and failed_wallets
\* has grown by 1, and last_processed_wallet is the wallet of that message
\* (or "unknown"), whatever the outcome of the message was.
C2_StatsEveryMessage ==
    last.offset > 0 =>
        /\ last.after.total_wallets_processed = last.before.total_wallets_processed + 1
        /\ \/ /\ last.after.successful_wallets = last.before.successful_wallets + 1
              /\ last.after.failed_wallets = last.before.failed_wallets
           \/ /\ last.after.successful_wallets = last.before.successful_wallets
              /\ last.after.failed_wallets = last.before.failed_wallets + 1
        /\ last.after.last_processed_wallet \in {last.msg.wallet_address, UNKNOWN}

\* C3: a publish error never ends the worker loop: no message's handling ends
\* with the loop left, and the loop is never left because publishes failed.
C3_LoopSurvivesPublishError ==
    /\ ~last.stopped
    /\ exitReason # "publish_error"

\* C4: a message that fails validation, or whose scoring raises, does not stop
\* the loop, so the messages behind it in the batch are still handled.
C4_BadMessageIsolated ==
    last.kind \in {"validation", "processing"} =>
        /\ ~last.stopped
        /\ (pc = "stopped" /\ exitReason = "publish_error" => batch = <<>>)

\* C5: every message whose handling has ended has exactly one record, on the
\* success topic or on the failure topic, never both and never two.
C5_ExactlyOneRecord ==
    \A k \in HandledOffsets :
        RecordsFor(successTopic, k) + RecordsFor(failureTopic, k) = 1

\* C6: a success record is never published for a wallet_address that is not
\* 0x followed by exactly 40 hexadecimal characters.
C6_NonHexNeverSucceeds ==
    \A i \in 1..Len(successTopic) : IsHexAddress(successTopic[i].wallet_address)

\* C7: a payload that is not JSON is handled like a validation failure: the
\* loop is not left because of it, and once the task rests a failure record
\* with wallet_address "unknown" answers it and it is counted as failed.
C7_UndecodableIsFailure ==
    /\ exitReason # "poll_error"
    /\ pc \in {"sleep", "stopped"} =>
        /\ \A k \in undecodable :
            \E i \in 1..Len(failureTopic) :
                failureTopic[i].offset = k /\ failureTopic[i].wallet_address = UNKNOWN
        /\ stats.failed_wallets >= Cardinality(undecodable)

\* C8: the failure record of a validation failure lists one CategoryError per
\* element of the message's data list, in order, with the bucket's
\* protocolType (or "unknown") and its number of transactions.
C8_OneCategoryPerBucket ==
    \A i \in 1..Len(failureTopic) :
        LET r == failureTopic[i]
            d == last.msg.data
        IN (r.offset = last.offset /\ last.kind = "validation"
              /\ r.error = "Validation error") =>
            /\ Len(r.categories) = Len(d)
            /\ \A j \in 1..Len(d) :
                /\ r.categories[j].category =
                     (IF "protocolType" \in d[j].has THEN d[j].protocolType ELSE UNKNOWN)
                /\ r.categories[j].transaction_count =
                     (IF "transactions" \in d[j].has THEN Len(d[j].transactions) ELSE 0)

\* C9: when the task has ended on a shutdown request (cancellation or signal),
\* no message is left in flight: the message being handled when the request
\* came ran to its end, its record published and its statistics updated.
C9_InFlightCompletes ==
    (pc = "stopped" /\ exitReason \in {"cancelled", "sys_exit"}) => cur = NoMessage

\* C10: when the process exits, the consumer has been closed and the producer
\* has been flushed and closed, also when consumer.close() raised.
C10_ClientsReleased ==
    lifespan = "exited" =>
        consumer.closed /\ producer.flushed /\ producer.closed

\* the records on either topic that answer input records consumed before k
EarlierRecords(k) ==
    {successTopic[i] : i \in {j \in 1..Len(successTopic) : successTopic[j].offset < k}}
    \cup {failureTopic[i] : i \in {j \in 1..Len(failureTopic) : failureTopic[j].offset < k}}

\* C11: outcome records are published in the order of consumption: while a
\* publish for a message is under way, every message consumed before it has a
\* record, and every record of such a message has been acknowledged.
C11_PublishedInOrder ==
    InFlight =>
        /\ \A r \in EarlierRecords(cur.offset) : r.acked
        /\ \A k \in 1..(cur.offset - 1) :
            \E r \in EarlierRecords(cur.offset) : r.offset = k

\* C12: every snapshot get_stats returns is taken between two messages and is
\* whole: successful_wallets plus failed_wallets equals
\* total_wallets_processed, total_processing_time_ms is the time of exactly
\* the messages counted, and the counters are those of the statistics.
C12_SnapshotConsistent ==
    response.endpoint = "stats" =>
        LET b == response.body
        IN /\ b.successful_wallets + b.failed_wallets = b.total_wallets_processed
           /\ b.total_processing_time_ms = MaxProcMs * b.total_wallets_processed
           /\ cur = NoMessage
           /\ b.total_wallets_processed = stats.total_wallets_processed
           /\ b.successful_wallets = stats.successful_wallets
           /\ b.failed_wallets = stats.failed_wallets
           /\ b.total_processing_time_ms = stats.total_processing_time_ms

\* C12 witness: a snapshot read after the worker counted a success and a
\* failure.
C12_Witness ==
    /\ response.endpoint = "stats"
    /\ response.body.successful_wallets >= 1
    /\ response.body.failed_wallets >= 1
    /\ response.body.total_processing_time_ms > 0

ScoreRange == 0..100000

\* C13: every score of a wallet that was scored, each CategoryScore.score and
\* the overall score, lies in [0, 1000] (in hundredths: 0..100000).
C13_ScoresInRange ==
    \A i \in 1..Len(history) :
        LET r == history[i].result
        IN ~r.raised =>
            /\ r.overall \in ScoreRange
            /\ \A j \in 1..Len(r.categories) : r.categories[j].score \in ScoreRange

\* C13 witness: a wallet with two buckets was scored above 600 and a wallet
\* without buckets at 0.
C13_Witness ==
    /\ \E i \in 1..Len(history) :
        /\ ~history[i].result.raised
        /\ Len(history[i].result.categories) = 2
        /\ history[i].result.overall > 60000
    /\ \E i \in 1..Len(history) :
        ~history[i].result.raised /\ history[i].result.overall = 0

\* a payload within the contract whose data list is empty
IsEmptyWallet(m) ==
    m.obj /\ ~ValidationFails(m) /\ m.data = <<>>

\* C14: a valid input whose data list is empty is scored successfully, with
\* overall score 0 and no category; when its success publish is acknowledged
\* its only record is a success record with zscore 0 and no category, and
\* successful_wallets has grown by 1 while failed_wallets has not.
C14_EmptyDataSucceeds ==
    /\ (cur # NoMessage /\ IsEmptyWallet(cur.msg)) =>
            /\ cur.kind \in {"success", "publish"}
            /\ cur.overall = 0
            /\ cur.categories = <<>>
    /\ (last.offset > 0 /\ IsEmptyWallet(last.msg) /\ last.kind = "success") =>
            /\ RecordsFor(failureTopic, last.offset) = 0
            /\ RecordsFor(successTopic, last.offset) = 1
            /\ \A i \in 1..Len(successTopic) :
                successTopic[i].offset = last.offset =>
                    /\ successTopic[i].overall = 0
                    /\ successTopic[i].zscore = format_18f(0)
                    /\ successTopic[i].categories = <<>>
            /\ last.after.successful_wallets = last.before.successful_wallets + 1
            /\ last.after.failed_wallets = last.before.failed_wallets

\* C14 witness: a message with an empty data list has been handled and its
\* success record is on the success topic.
C14_Witness ==
    /\ last.offset > 0
    /\ last.msg = MsgEmptyData
    /\ last.kind = "success"
    /\ RecordsFor(successTopic, last.offset) = 1
    /\ stats.successful_wallets >= 1

\* the fallback score as worded, in hundredths
BasicScore(b) ==
    Min2(100 * (10 * Len(b.transactions) + 5 * UniquePools(b.transactions)), 50000)

\* C15: scoring a wallet completes for every bucket whose protocolType is not
\* "dexes", and the CategoryScore of such a bucket carries
\* min(10 * transaction_count + 5 * unique_pools, 500).
C15_BasicFallbackScore ==
    \A i \in 1..Len(history) :
        LET d == history[i].data
            r == history[i].result
        IN (\E j \in 1..Len(d) : lower(d[j].protocolType) # DEXES) =>
            /\ ~r.raised
            /\ \A j \in 1..Len(d) :
                lower(d[j].protocolType) # DEXES =>
                    r.categories[j].score = BasicScore(d[j])

Weight2(b) == IF lower(b.protocolType) = DEXES THEN 2 ELSE 1

RECURSIVE WeightedSum2(_, _)
\* sum of the category scores, each weighted twice its bucket's weight
WeightedSum2(data, cats) ==
    IF data = <<>> THEN 0
    ELSE Weight2(Head(data)) * Head(cats).score + WeightedSum2(Tail(data), Tail(cats))

RECURSIVE WeightSum2(_)
WeightSum2(data) ==
    IF data = <<>> THEN 0 ELSE Weight2(Head(data)) + WeightSum2(Tail(data))

\* C16: a wallet with at least one bucket gets one CategoryScore per bucket,
\* in input order, and its overall score is the sum of the category scores
\* weighted 1.0 for "dexes" and 0.5 for every other bucket, divided by the sum
\* of the weights.
C16_WeightedAverage ==
    \A i \in 1..Len(history) :
        LET d == history[i].data
            r == history[i].result
        IN Len(d) >= 1 =>
            /\ ~r.raised
            /\ Len(r.categories) = Len(d)
            /\ \A j \in 1..Len(d) :
                r.categories[j].transaction_count = Len(d[j].transactions)
            /\ r.overall = WeightedSum2(d, r.categories) \div WeightSum2(d)

IsFixed18(z) ==
    /\ Len(z) >= 20
    /\ z[Len(z) - 18] = "."
    /\ \A k \in 1..Len(z) :
        k # Len(z) - 18 => \E d \in 1..Len(DecimalDigits) : z[k] = DecimalDigits[d]

\* C18: every zscore, of a wallet scored by the service and of a response 200
\* of the process-wallet endpoint, is a decimal number with exactly 18 digits
\* after the point, also when the overall score is 0.
C18_ZscoreFixedPoint ==
    /\ \A i \in 1..Len(history) :
        ~history[i].result.raised => IsFixed18(history[i].zscore)
    /\ (response.endpoint = "process-wallet" /\ response.body.status = 200) =>
            IsFixed18(response.body.zscore)

\* C18 witness: a wallet scored at 0 and a wallet scored above 0 both have
\* their zscore, and the endpoint has answered 200.
C18_Witness ==
    /\ \E i \in 1..Len(history) :
        ~history[i].result.raised /\ history[i].result.overall = 0
        /\ history[i].zscore = <<"0", ".">> \o Rep("0", 18)
    /\ \E i \in 1..Len(history) :
        ~history[i].result.raised /\ history[i].result.overall % 100 # 0
    /\ response.endpoint = "process-wallet"
    /\ response.body.status = 200

\* C19: the input with wallet_address "invalid_address" and empty data, posted
\* to the process-wallet endpoint, gets an error response and raises
\* failed_wallets by exactly 1.
C19_InvalidAddressCounted ==
    (response.endpoint = "process-wallet" /\ response.request = MsgInvalidAddress) =>
        /\ response.body.status # 200
        /\ stats.failed_wallets = response.stats_before.failed_wallets + 1

\* C20: when startup has failed nothing is left partially started: the
\* consumer task was never created and no client that was opened is open.
C20_NoPartialStartup ==
    lifespan = "failed" =>
        /\ pc = "not_created"
        /\ mongo.opened => mongo.closed
        /\ consumer.opened => consumer.closed
        /\ producer.opened => producer.closed

\* the positions of the transactions of txs whose action is one of actions
WithAction(txs, actions) == {k \in 1..Len(txs) : txs[k].action \in actions}

\* C21: of every "dexes" bucket that was scored, num_deposits counts the
\* transactions with action deposit or add_liquidity, num_withdraws those with
\* withdraw or remove_liquidity, num_swaps those with swap, unique_pools the
\* distinct poolId values, and the three counts add up to transaction_count;
\* one swap and one deposit on the same pool give 1, 1, 0 and 1 pool.
C21_ActionCounts ==
    \A i \in 1..Len(history) :
        LET d == history[i].data
            r == history[i].result
        IN ~r.raised =>
            \A j \in 1..Len(d) :
                LET txs == d[j].transactions
                    c == r.categories[j]
                    f == c.features
                IN lower(d[j].protocolType) = DEXES =>
                    /\ f.num_deposits =
                         Cardinality(WithAction(txs, {"deposit", "add_liquidity"}))
                    /\ f.num_withdraws =
                         Cardinality(WithAction(txs, {"withdraw", "remove_liquidity"}))
                    /\ f.num_swaps = Cardinality(WithAction(txs, {"swap"}))
                    /\ f.unique_pools =
                         Cardinality({txs[k].poolId : k \in 1..Len(txs)})
                    /\ f.num_deposits + f.num_swaps + f.num_withdraws
                         = c.transaction_count
                    /\ c.transaction_count = Len(txs)
                    /\ (txs = <<TxSwap, TxDeposit>> =>
                            /\ f.num_swaps = 1 /\ f.num_deposits = 1
                            /\ f.num_withdraws = 0 /\ f.unique_pools = 1)

\* C21 witness: the wallet with one swap and one deposit on one pool was
\* scored, and so was a bucket with add_liquidity, swap and remove_liquidity
\* on three pools.
C21_Witness ==
    /\ \E i \in 1..Len(history) :
        history[i].data = <<DexBucket>> /\ ~history[i].result.raised
    /\ \E i \in 1..Len(history) :
        /\ history[i].data = <<WhaleBucket>>
        /\ ~history[i].result.raised
        /\ history[i].result.categories[1].features.unique_pools = 3
        /\ history[i].result.categories[1].features.num_withdraws = 1

\* the places where the handling of one message publishes a record:
\* _publish_success (line 160), _publish_failure of an except branch of
\* _process_message (lines 174, 188), _publish_failure of the loop (line 112)
PublishSites == {"publish_success", "publish_failure", "loop_except"}

\* C22: a failing publish is never retried without end: the handling of one
\* message makes at most one publish at each of its publish sites, a publish
\* under way has fewer than that many before it, and when the last of them
\* raised the error has left the loop and the handling of the message is over.
C22_BoundedPublishAttempts ==
    /\ InFlight => cur.attempts < Cardinality(PublishSites)
    /\ last.offset > 0 => last.attempts \in 1..Cardinality(PublishSites)
    /\ last.stopped =>
        /\ exitReason = "publish_error"
        /\ pc \in {"finally", "stopped"}
        /\ cur = NoMessage

\* C22 witness: a scored message whose success publish, failure publish and
\* loop publish all raised: three publishes, then the loop was left.
C22_Witness ==
    /\ last.offset > 0
    /\ last.kind = "publish"
    /\ last.attempts = 3
    /\ last.stopped
    /\ pc = "stopped"

\* C23: a message that was scored but whose success publish failed is counted
\* as a failure when its handling has ended: successful_wallets unchanged,
\* failed_wallets and total_wallets_processed each greater by 1, and a failure
\* record with a processing error for it on the failure topic.
C23_FailedPublishCounted ==
    (last.offset > 0 /\ last.kind = "publish") =>
        /\ last.after.successful_wallets = last.before.successful_wallets
        /\ last.after.failed_wallets = last.before.failed_wallets + 1
        /\ last.after.total_wallets_processed
             = last.before.total_wallets_processed + 1
        /\ \E i \in 1..Len(failureTopic) :
            /\ failureTopic[i].offset = last.offset
            /\ failureTopic[i].error = "Processing error"

IsEmptyDexBucket(b) == lower(b.protocolType) = DEXES /\ b.transactions = <<>>

\* C24: a wallet with a "dexes" bucket whose transactions list is empty is
\* scored without error: the bucket's features are the zero counts with
\* avg_transaction_size_usd 0, its CategoryScore lies in [0, 1000], and the
\* process-wallet endpoint answers such a wallet with 200.
C24_EmptyDexBucketScored ==
    /\ \A i \in 1..Len(history) :
        LET d == history[i].data
            r == history[i].result
        IN (\E j \in 1..Len(d) : IsEmptyDexBucket(d[j])) =>
            /\ ~r.raised
            /\ \A j \in 1..Len(d) :
                IsEmptyDexBucket(d[j]) =>
                    /\ r.categories[j].features.avg_transaction_size_usd = 0
                    /\ r.categories[j].features.num_deposits = 0
                    /\ r.categories[j].features.num_swaps = 0
                    /\ r.categories[j].features.num_withdraws = 0
                    /\ r.categories[j].transaction_count = 0
                    /\ r.categories[j].score \in ScoreRange
    /\ (/\ response.endpoint = "process-wallet"
        /\ ~ValidationFails(response.request)
        /\ \E j \in 1..Len(response.request.data) :
                IsEmptyDexBucket(response.request.data[j]))
            => response.body.status = 200

\* C25: when the computation of one feature raises during extraction, that
\* feature alone stays at its default: every feature before it and every
\* feature after it in the order of the source carries the value computed
\* from the frame.
C25_OnlyFailedFeatureDefault ==
    \A i \in 1..Len(calls) :
        LET c == calls[i]
        IN (c.method = "_extract_dex_features" /\ c.raisedAt # NoFault) =>
            /\ c.features[FeatureOrder[c.raisedAt]] = 0
            /\ \A k \in 1..Len(FeatureOrder) :
                k # c.raisedAt =>
                    c.features[FeatureOrder[k]]
                        = extract_dex_features(c.df)[FeatureOrder[k]]

\* two CategoryFeatures values that agree in every field but total_deposit_usd
DifferInDepositOnly(f, g) ==
    [f EXCEPT !.total_deposit_usd = g.total_deposit_usd] = g

\* C26: of two calls of _calculate_lp_score on feature sets that differ in
\* total_deposit_usd alone, the one with the larger total_deposit_usd returns
\* an LP score that is not lower.
C26_LpScoreMonotone ==
    \A i \in 1..Len(calls) : \A j \in 1..Len(calls) :
        (/\ calls[i].method = "_calculate_lp_score"
         /\ calls[j].method = "_calculate_lp_score"
         /\ DifferInDepositOnly(calls[i].features, calls[j].features)
         /\ calls[i].features.total_deposit_usd <= calls[j].features.total_deposit_usd)
            => calls[i].score <= calls[j].score

\* C26 witness: the LP score was computed just below and at the 10000 tier
\* for a wallet that withdrew 5000, and the second score is the higher one.
C26_Witness ==
    /\ Len(calls) = 2
    /\ calls[1].method = "_calculate_lp_score"
    /\ calls[2].method = "_calculate_lp_score"
    /\ calls[1].features.total_withdraw_usd = 5000
    /\ calls[2].features.total_withdraw_usd = 5000
    /\ calls[1].features.total_deposit_usd = 9999
    /\ calls[2].features.total_deposit_usd = 10000
    /\ calls[1].score < calls[2].score

Occurrences(txs, tx) == Cardinality({k \in 1..Len(txs) : txs[k] = tx})

\* the same transactions, listed in any order
IsPermutation(a, b) ==
    /\ Len(a) = Len(b)
    /\ \A k \in 1..Len(a) : Occurrences(a, a[k]) = Occurrences(b, a[k])

C28_FailureNamesWallet ==
    (last.offset > 0 /\ last.kind = "validation"
       /\ "wallet_address" \in last.msg.has) =>
        /\ \A i \in 1..Len(failureTopic) :
            (failureTopic[i].offset = last.offset
               /\ failureTopic[i].error = "Validation error") =>
                failureTopic[i].wallet_address = last.msg.wallet_address
        /\ last.after # last.before =>
            last.after.last_processed_wallet = last.msg.wallet_address

\* the records of a topic whose publish was acknowledged to the caller
Acknowledged(topic) == {i \in 1..Len(topic) : topic[i].acked}

\* C29: between two messages successful_wallets is the number of success
\* records whose publish was acknowledged, and failed_wallets the number of
\* failure records whose publish was acknowledged.
C29_CountersMatchRecords ==
    cur = NoMessage =>
        /\ stats.successful_wallets = Cardinality(Acknowledged(successTopic))
        /\ stats.failed_wallets = Cardinality(Acknowledged(failureTopic))

\* C30: when the application has shut down after cancelling the consumer
\* task, consumer.close, producer.flush and producer.close have each been
\* called exactly once.
C30_ReleasedExactlyOnce ==
    (lifespan = "exited" /\ exitReason = "cancelled") =>
        /\ consumer.close_calls = 1
        /\ producer.flush_calls = 1
        /\ producer.close_calls = 1

====
